---- MODULE Spec2Model ----
(***************************************************************************)
(* Commit-message generation pipeline of commic: the Conventional Commits  *)
(* validator, the response parser, the retry loop of                       *)
(* AIService.generateCommitMessages and the fallback message generator.    *)
(*                                                                         *)
(* Text is a sequence of one-character strings; an offset is 0-based as in *)
(* the source, an index into a sequence is 1-based.                        *)
(***************************************************************************)
EXTENDS Naturals, Sequences, FiniteSets, TLC

\* The state of one call of AIService.generateCommitMessages
VARIABLES
  diff,             \* the GitDiff the run was called with
  pc,               \* "idle", "awaiting" (at the await of Promise.race), "returned", "thrown"
  attempts,         \* the local attempts
  bestSuggestions,  \* the local bestSuggestions
  result,           \* the list the promise resolved with
  error,            \* the error the promise rejected with, "none" before
  calls,            \* generateContent calls issued
  pendingCalls,     \* attempts whose generateContent has not settled
  pendingTimers,    \* attempts whose 30 s timer has not fired
  exit,             \* the return statement taken: "accepted", "enough", "best", "fallback"
  trace,            \* how each finished attempt ended, in order
  arg,              \* the argument of a function applied on its own
  ret               \* <<its value>> once applied, <<>> before

(***************************************************************************)
(* Characters                                                              *)
(***************************************************************************)
LowerSeq ==
  <<"a", "b", "c", "d", "e", "f", "g", "h", "i", "j", "k", "l", "m",
    "n", "o", "p", "q", "r", "s", "t", "u", "v", "w", "x", "y", "z">>

UpperSeq ==
  <<"A", "B", "C", "D", "E", "F", "G", "H", "I", "J", "K", "L", "M",
    "N", "O", "P", "Q", "R", "S", "T", "U", "V", "W", "X", "Y", "Z">>

Lower == {LowerSeq[i] : i \in 1..Len(LowerSeq)}

Upper == {UpperSeq[i] : i \in 1..Len(UpperSeq)}

Digit == {"0", "1", "2", "3", "4", "5", "6", "7", "8", "9"}

\* \w of a JavaScript regular expression
WordChar == Lower \cup Upper \cup Digit \cup {"_"}

\* Variant: upper-case letters are let into a scope
ScopeChar_withUpper == Lower \cup Upper \cup Digit \cup {"-"}

\* [a-z0-9-] of COMMIT_PATTERN's scope group
ScopeChar == Lower \cup Digit \cup {"-"}

\* \s of a JavaScript regular expression, and what String.prototype.trim
\* strips: the ASCII members of the class, namely space, tab, line feed,
\* carriage return, form feed and vertical tab (U+000B, written as the
\* character itself). Its members outside ASCII (U+00A0, U+FEFF, U+2028,
\* U+2029, ...) are outside the alphabet of the model.
WhiteSpace == {" ", "\t", "\n", "\r", "\f", ""}

\* what "." of a JavaScript regular expression does not match
LineTerminator == {"\n", "\r"}

(***************************************************************************)
(* String primitives of the JavaScript runtime                             *)
(***************************************************************************)
MinOf(S) == CHOOSE x \in S : \A y \in S : x <= y

MaxOf(S) == CHOOSE x \in S : \A y \in S : y <= x

toLowerChar(c) ==
  IF c \in Upper THEN LowerSeq[CHOOSE i \in 1..Len(UpperSeq) : UpperSeq[i] = c] ELSE c

toLowerCase(s) == [i \in 1..Len(s) |-> toLowerChar(s[i])]

trim(s) ==
  LET keep == {i \in 1..Len(s) : s[i] \notin WhiteSpace}
  IN  IF keep = {} THEN <<>> ELSE SubSeq(s, MinOf(keep), MaxOf(keep))

\* s.startsWith(p, q): p occurs in s at offset q
startsWithAt(s, q, p) ==
  /\ q + Len(p) <= Len(s)
  /\ SubSeq(s, q + 1, q + Len(p)) = p

startsWith(s, p) == startsWithAt(s, 0, p)

includes(s, p) == \E q \in 0..Len(s) : startsWithAt(s, q, p)

\* The loop of String.prototype.split from offset p on: m[q] is the offset
\* at which the separator matched at offset q ends, 0 when it does not match
\* there; the next piece ends at the first offset from p on where it matches.
RECURSIVE SplitLoop(_, _, _)
SplitLoop(s, m, p) ==
  LET hits == {q \in p..(Len(s) - 1) : m[q] # 0}
  IN  IF hits = {} THEN <<SubSeq(s, p + 1, Len(s))>>
      ELSE <<SubSeq(s, p + 1, MinOf(hits))>> \o SplitLoop(s, m, m[MinOf(hits)])

\* s.split(sep) for a non-empty literal separator
split(s, sep) ==
  LET m == [q \in 0..Len(s) |-> IF startsWithAt(s, q, sep) THEN q + Len(sep) ELSE 0]
  IN  SplitLoop(s, m, 0)

NL == <<"\n">>

\* Variant: the parts are put together without the separator
RECURSIVE join_noSep(_, _)
join_noSep(parts, sep) ==
  IF parts = <<>> THEN <<>> ELSE parts[1] \o join_noSep(Tail(parts), sep)

RECURSIVE join(_, _)
join(parts, sep) ==
  IF parts = <<>> THEN <<>>
  ELSE IF Len(parts) = 1 THEN parts[1]
  ELSE parts[1] \o sep \o join(Tail(parts), sep)

(***************************************************************************)
(* ConventionalCommitsValidator                                            *)
(***************************************************************************)
VALID_TYPES ==
  << <<"f", "e", "a", "t">>,
     <<"f", "i", "x">>,
     <<"d", "o", "c", "s">>,
     <<"s", "t", "y", "l", "e">>,
     <<"r", "e", "f", "a", "c", "t", "o", "r">>,
     <<"t", "e", "s", "t">>,
     <<"c", "h", "o", "r", "e">>,
     <<"p", "e", "r", "f">>,
     <<"c", "i">>,
     <<"b", "u", "i", "l", "d">> >>

\* Variant: only the first type of the list is known
isValidType_firstOnly(type) == type = VALID_TYPES[1]

isValidType(type) == \E i \in 1..Len(VALID_TYPES) : VALID_TYPES[i] = type

\* subject.match(COMMIT_PATTERN), /^(\w+)(\([a-z0-9-]+\))?(!)?:\s(.+)$/ :
\* ok is FALSE for null; scope holds the group with its parentheses, <<>>
\* when the group did not take part.
NoMatch ==
  [ok |-> FALSE, type |-> <<>>, scope |-> <<>>, breaking |-> FALSE, description |-> <<>>]

COMMIT_PATTERN(subject) ==
  LET n == Len(subject)
      words == {k \in 1..n : \A i \in 1..k : subject[i] \in WordChar}
      tEnd == IF words = {} THEN 0 ELSE MaxOf(words)
      paren == tEnd + 1 <= n /\ subject[tEnd + 1] = "("
      closes == {j \in (tEnd + 3)..n :
                   /\ subject[j] = ")"
                   /\ \A i \in (tEnd + 2)..(j - 1) : subject[i] \in ScopeChar}
      scoped == paren /\ closes # {}
      a == IF scoped THEN MinOf(closes) ELSE tEnd
      breaking == a + 1 <= n /\ subject[a + 1] = "!"
      b == IF breaking THEN a + 1 ELSE a
      ok == /\ tEnd >= 1
            /\ b + 3 <= n
            /\ subject[b + 1] = ":"
            /\ subject[b + 2] \in WhiteSpace
            /\ \A i \in (b + 3)..n : subject[i] \notin LineTerminator
  IN  IF ~ok THEN NoMatch
      ELSE [ok |-> TRUE,
            type |-> SubSeq(subject, 1, tEnd),
            scope |-> IF scoped THEN SubSeq(subject, tEnd + 1, a) ELSE <<>>,
            breaking |-> breaking,
            description |-> SubSeq(subject, b + 3, n)]

MaxSubjectLength == 72

\* One entry of ValidationResult.errors: the check that failed and, for the
\* type check, the type the message names.
\* Variant: the error does not carry the token
Err_noToken(code, token) == [code |-> code, token |-> <<>>]

Err(code, token) == [code |-> code, token |-> token]

validate(message) ==
  IF trim(message) = <<>>
  THEN [valid |-> FALSE, errors |-> <<Err("empty-message", <<>>)>>]
  ELSE
    LET lines == split(message, NL)
        subject == lines[1]
        match == COMMIT_PATTERN(subject)
        eType == IF ~isValidType(match.type)
                 THEN <<Err("invalid-type", match.type)>> ELSE <<>>
        eEmpty == IF trim(match.description) = <<>>
                  THEN <<Err("empty-description", <<>>)>> ELSE <<>>
        eUpper == IF match.description # <<>> /\ match.description[1] \in Upper
                  THEN <<Err("uppercase-description", <<>>)>> ELSE <<>>
        eLength == IF Len(subject) > MaxSubjectLength
                   THEN <<Err("subject-too-long", <<>>)>> ELSE <<>>
        eBlank == IF Len(lines) > 1 /\ trim(lines[2]) # <<>>
                  THEN <<Err("no-blank-line", <<>>)>> ELSE <<>>
        errors == eType \o eEmpty \o eUpper \o eLength \o eBlank
    IN  IF ~match.ok
        THEN [valid |-> FALSE, errors |-> <<Err("bad-format", <<>>)>>]
        ELSE [valid |-> Len(errors) = 0, errors |-> errors]

\* parseCommitMessage: null is NoMatch; body is <<>> with hasBody FALSE when
\* the source leaves it undefined.
parseCommitMessage(message) ==
  LET lines == split(message, NL)
      match == COMMIT_PATTERN(lines[1])
  IN  IF ~match.ok
      THEN [ok |-> FALSE, type |-> <<>>, scope |-> <<>>, breaking |-> FALSE,
            description |-> <<>>, hasBody |-> FALSE, body |-> <<>>]
      ELSE [ok |-> TRUE,
            type |-> match.type,
            scope |-> IF match.scope # <<>>
                      THEN SubSeq(match.scope, 2, Len(match.scope) - 1) ELSE <<>>,
            breaking |-> match.breaking
                         \/ includes(message, <<"B", "R", "E", "A", "K", "I", "N", "G", " ",
                                                "C", "H", "A", "N", "G", "E", ":">>),
            description |-> match.description,
            hasBody |-> Len(lines) > 2,
            body |-> IF Len(lines) > 2
                     THEN trim(join(SubSeq(lines, 3, Len(lines)), NL)) ELSE <<>>]

isSingleLine(message) ==
  LET lines == SelectSeq(split(message, NL), LAMBDA line : Len(trim(line)) > 0)
  IN  Len(lines) = 1

(***************************************************************************)
(* AIService.parseResponse                                                 *)
(***************************************************************************)
DASHES == <<"-", "-", "-">>

\* The separator of strategy 1, /\n---\n/g
tripleDashPattern == NL \o DASHES \o NL

\* Offset at which the maximal run of characters of class C starting at
\* offset q ends (q itself when the run is empty).
RunEnd(s, q, C) ==
  LET stops == {k \in (q + 1)..Len(s) : s[k] \notin C}
  IN  IF stops = {} THEN Len(s) ELSE MinOf(stops) - 1

\* Offset at which a match of
\* /(feat|fix|docs|style|refactor|test|chore|perf|ci|build)(\([^)]+\))?(!)?:\s/
\* starting at offset q ends, 0 when there is none.
typePrefix(s, q) ==
  LET n == Len(s)
      ts == {i \in 1..Len(VALID_TYPES) : startsWithAt(s, q, VALID_TYPES[i])}
  IN  IF ts = {} THEN 0
      ELSE
        LET tEnd == q + Len(VALID_TYPES[CHOOSE i \in ts : TRUE])
            paren == tEnd + 1 <= n /\ s[tEnd + 1] = "("
            closes == {j \in (tEnd + 3)..n :
                         /\ s[j] = ")"
                         /\ \A i \in (tEnd + 2)..(j - 1) : s[i] # ")"}
            a == IF paren /\ closes # {} THEN MinOf(closes) ELSE tEnd
            b == IF a + 1 <= n /\ s[a + 1] = "!" THEN a + 1 ELSE a
        IN  IF b + 2 <= n /\ s[b + 1] = ":" /\ s[b + 2] \in WhiteSpace
            THEN b + 2 ELSE 0

\* /^(feat|...|build)(\([^)]+\))?(!)?:\s/.test(msg)
looksLikeCommit(msg) == typePrefix(msg, 0) # 0

\* /^\d+\./ at offset q of s (the caller places the ^)
numberDot(s, q) ==
  LET d == RunEnd(s, q, Digit)
  IN  d > q /\ d + 1 <= Len(s) /\ s[d + 1] = "."

\* Offset at which a match of numberedPattern, /^\d+\.\s+/gm, starting at
\* offset q ends, 0 when there is none.
numberedPattern(s, q) ==
  LET d == RunEnd(s, q, Digit)
      w == RunEnd(s, d + 1, WhiteSpace)
  IN  IF /\ (q = 0 \/ s[q] \in LineTerminator)
         /\ numberDot(s, q)
         /\ w > d + 1
      THEN w ELSE 0

\* Offset at which a match of doubleNewlinePattern, /\n\n+/, starting at
\* offset q ends, 0 when there is none.
doubleNewlinePattern(s, q) ==
  IF q + 2 <= Len(s) /\ s[q + 1] = "\n" /\ s[q + 2] = "\n"
  THEN RunEnd(s, q, {"\n"}) ELSE 0

\* s.split(pattern), pattern given as its match-end operator tabulated
splitNumbered(s) ==
  SplitLoop(s, [q \in 0..Len(s) |-> numberedPattern(s, q)], 0)

splitDoubleNewline(s) ==
  SplitLoop(s, [q \in 0..Len(s) |-> doubleNewlinePattern(s, q)], 0)

\* .map((msg) => msg.trim())
mapTrim(parts) == [i \in 1..Len(parts) |-> trim(parts[i])]

nonEmpty(msg) == Len(msg) > 0

\* Offset at which the run of [^\n] holding offset q ends
lineEnd(s, q) == MinOf({k \in q..Len(s) : k = Len(s) \/ s[k + 1] = "\n"})

\* The tail (?:\n(?!---|\d+\.)[^\n]+)* of commitPattern: e is the offset
\* reached so far; each round takes one more line.
RECURSIVE continuationLines(_, _)
continuationLines(s, e) ==
  IF /\ e + 2 <= Len(s)
     /\ s[e + 1] = "\n"
     /\ ~startsWithAt(s, e + 1, DASHES)
     /\ ~numberDot(s, e + 1)
     /\ s[e + 2] # "\n"
  THEN continuationLines(s, lineEnd(s, e + 1))
  ELSE e

\* Offset at which a match of commitPattern,
\* /(feat|...|build)(\([^)]+\))?(!)?:\s[^\n]+(?:\n(?!---|\d+\.)[^\n]+)*/g,
\* starting at offset q ends, 0 when there is none.
commitPattern(s, q) ==
  LET p == typePrefix(s, q)
  IN  IF p = 0 \/ p + 1 > Len(s) \/ s[p + 1] = "\n" THEN 0
      ELSE continuationLines(s, lineEnd(s, p))

\* response.match(commitPattern) from offset q on: the matches in order
\* (<<>> for null)
RECURSIVE matchAll(_, _)
matchAll(s, q) ==
  LET hits == {k \in q..(Len(s) - 1) : commitPattern(s, k) # 0}
  IN  IF hits = {} THEN <<>>
      ELSE <<SubSeq(s, MinOf(hits) + 1, commitPattern(s, MinOf(hits)))>>
           \o matchAll(s, commitPattern(s, MinOf(hits)))

\* The messages array after strategy 1: split by "---" on its own line
strategy1(response) ==
  IF includes(response, tripleDashPattern)
  THEN SelectSeq(mapTrim(split(response, tripleDashPattern)), nonEmpty)
  ELSE <<>>

\* Variant: every strategy is tried, whatever the one before found
notSplit_always(messages) == TRUE

\* The guard of strategies 2, 3 and 4
notSplit(messages) == Len(messages) = 0 \/ Len(messages) = 1

\* Strategy 2: split by "---" anywhere
strategy2(response, messages) ==
  IF notSplit(messages)
  THEN SelectSeq(mapTrim(split(response, DASHES)), nonEmpty)
  ELSE messages

\* Strategy 3: split by numbered items
strategy3(response, messages) ==
  IF notSplit(messages) /\ \E q \in 0..Len(response) : numberedPattern(response, q) # 0
  THEN SelectSeq(mapTrim(splitNumbered(response)),
                 LAMBDA msg : Len(msg) > 0 /\ ~numberDot(msg, 0))
  ELSE messages

\* Variant: every part that is not empty is kept
strategy4_keepAll(response, messages) ==
  IF notSplit(messages) /\ \E q \in 0..Len(response) : doubleNewlinePattern(response, q) # 0
  THEN SelectSeq(mapTrim(splitDoubleNewline(response)), LAMBDA msg : Len(trim(msg)) > 0)
  ELSE messages

\* Strategy 4: split by double newlines, keeping the parts that start with a type
strategy4(response, messages) ==
  IF notSplit(messages) /\ \E q \in 0..Len(response) : doubleNewlinePattern(response, q) # 0
  THEN SelectSeq(mapTrim(splitDoubleNewline(response)),
                 LAMBDA msg : Len(trim(msg)) > 0 /\ looksLikeCommit(trim(msg)))
  ELSE messages

\* Variant: one message found counts as none, as for strategies 2, 3 and 4
noneFound_orOne(messages) == Len(messages) = 0 \/ Len(messages) = 1

\* The guard of strategy 5 and of the line-by-line extraction
noneFound(messages) == Len(messages) = 0

\* Strategy 5: extract commit messages by pattern matching
strategy5(response, messages) ==
  IF noneFound(messages) /\ matchAll(response, 0) # <<>>
  THEN mapTrim(matchAll(response, 0))
  ELSE messages

\* The loop over lines of the last extraction: found is validTypeLines,
\* cur is currentMessage.
RECURSIVE lineLoop(_, _, _)
lineLoop(lines, found, cur) ==
  IF lines = <<>>
  THEN IF cur # <<>> THEN Append(found, trim(cur)) ELSE found
  ELSE
    LET trimmed == trim(Head(lines))
    IN  IF looksLikeCommit(trimmed)
        THEN lineLoop(Tail(lines),
                      IF cur # <<>> THEN Append(found, trim(cur)) ELSE found,
                      trimmed)
        ELSE IF cur # <<>> /\ Len(trimmed) > 0
        THEN lineLoop(Tail(lines), found, cur \o NL \o trimmed)
        ELSE IF cur # <<>> /\ Len(trimmed) = 0
        THEN lineLoop(Tail(lines), found, cur \o NL)
        ELSE lineLoop(Tail(lines), found, cur)

\* Last extraction: any line starting with a valid type opens a message
strategy6(response, messages) ==
  IF noneFound(messages)
  THEN lineLoop(split(response, NL), <<>>, <<>>)
  ELSE messages

\* .replace(/^(Here are|Here's|Generated|Commit messages?):?\s*/i, '')
stripPreamble(msg) ==
  LET low == toLowerCase(msg)
      a == IF startsWith(low, <<"h", "e", "r", "e", " ", "a", "r", "e">>) THEN 8
           ELSE IF startsWith(low, <<"h", "e", "r", "e", "'", "s">>) THEN 6
           ELSE IF startsWith(low, <<"g", "e", "n", "e", "r", "a", "t", "e", "d">>) THEN 9
           ELSE IF startsWith(low, <<"c", "o", "m", "m", "i", "t", " ",
                                     "m", "e", "s", "s", "a", "g", "e">>)
                THEN (IF Len(low) >= 15 /\ low[15] = "s" THEN 15 ELSE 14)
           ELSE 0
      c == IF a + 1 <= Len(msg) /\ msg[a + 1] = ":" THEN a + 1 ELSE a
  IN  IF a = 0 THEN msg
      ELSE SubSeq(msg, RunEnd(msg, c, WhiteSpace) + 1, Len(msg))

\* The ASCII members of the class [-*...] of the bullet pattern; its other
\* members are outside the alphabet of the model.
BulletChar == {"-", "*"}

\* .replace(/^[-*...]\s*/, '')
stripBullet(msg) ==
  IF msg # <<>> /\ msg[1] \in BulletChar
  THEN SubSeq(msg, RunEnd(msg, 1, WhiteSpace) + 1, Len(msg))
  ELSE msg

mapClean(messages) ==
  [i \in 1..Len(messages) |-> trim(stripBullet(stripPreamble(messages[i])))]

\* Clean up messages: strip prefixes, keep what starts with a valid type
cleanUp(messages) ==
  SelectSeq(mapClean(messages), LAMBDA msg : Len(msg) > 0 /\ looksLikeCommit(msg))

SingleLine == "single-line"

MultiLine == "multi-line"

\* Variant: every suggestion is said to be single-line
toSuggestion_alwaysSingle(message) == [message |-> trim(message), type |-> SingleLine]

toSuggestion(message) ==
  [message |-> trim(message),
   type |-> IF isSingleLine(message) THEN SingleLine ELSE MultiLine]

mapSuggestion(messages) == [i \in 1..Len(messages) |-> toSuggestion(messages[i])]

\* The candidate messages parseResponse extracts from a non-blank response
extractMessages(response) ==
  cleanUp(strategy6(response,
            strategy5(response,
              strategy4(response,
                strategy3(response,
                  strategy2(response, strategy1(response)))))))

parseResponse(response) ==
  IF trim(response) = <<>> THEN <<>>
  ELSE mapSuggestion(extractMessages(response))

(***************************************************************************)
(* AIService: evaluation of the parsed suggestions                         *)
(***************************************************************************)
\* Variant: every parsed suggestion is kept, valid or not
filterValidSuggestions_keepAll(suggestions) == suggestions

filterValidSuggestions(suggestions) ==
  SelectSeq(suggestions, LAMBDA suggestion : validate(suggestion.message).valid)

MinSuggestions == 2

MinSingleLine == 1

\* Variant: two single-line suggestions are asked for instead of one
meetsMinimumRequirements_twoSingle(suggestions) ==
  /\ Len(suggestions) >= MinSuggestions
  /\ Len(SelectSeq(suggestions, LAMBDA s : s.type = SingleLine)) >= 2

meetsMinimumRequirements(suggestions) ==
  IF Len(suggestions) < MinSuggestions THEN FALSE
  ELSE LET singleLineCount ==
             Len(SelectSeq(suggestions, LAMBDA s : s.type = SingleLine))
       IN  IF singleLineCount < MinSingleLine THEN FALSE ELSE TRUE

\* The comparator handed to Array.prototype.sort: negative, zero, positive
\* as "lt", "eq", "gt".
compareSuggestions(a, b) ==
  IF a.type = SingleLine /\ b.type # SingleLine THEN "lt"
  ELSE IF a.type # SingleLine /\ b.type = SingleLine THEN "gt"
  ELSE "eq"

\* Array.prototype.sort is stable: x goes after the last element that does
\* not compare greater than it.
RECURSIVE insertSorted(_, _)
insertSorted(sorted, x) ==
  IF sorted = <<>> THEN <<x>>
  ELSE LET last == sorted[Len(sorted)]
       IN  IF compareSuggestions(last, x) = "gt"
           THEN Append(insertSorted(SubSeq(sorted, 1, Len(sorted) - 1), x), last)
           ELSE Append(sorted, x)

RECURSIVE sortLoop(_, _)
sortLoop(sorted, rest) ==
  IF rest = <<>> THEN sorted
  ELSE sortLoop(insertSorted(sorted, Head(rest)), Tail(rest))

\* validSuggestions.sort(...): single-line messages first
sortSingleLineFirst(suggestions) == sortLoop(<<>>, suggestions)

MaxSuggestions == 5

\* Variant: the whole list is returned
sliceFive_all(suggestions) == suggestions

\* .slice(0, 5)
sliceFive(suggestions) ==
  SubSeq(suggestions, 1,
         IF Len(suggestions) < MaxSuggestions THEN Len(suggestions) ELSE MaxSuggestions)

\* Variant: the suggestions stored by earlier attempts are returned as well
acceptedSuggestions_withBest(validSuggestions) ==
  sliceFive(sortSingleLineFirst(bestSuggestions \o validSuggestions))

\* Variant: the list is cut to five before it is sorted
acceptedSuggestions_sliceFirst(validSuggestions) ==
  sortSingleLineFirst(sliceFive(validSuggestions))

\* The list returned when the minimum requirements are met
acceptedSuggestions(validSuggestions) ==
  sliceFive(sortSingleLineFirst(validSuggestions))

\* Variant: the valid suggestions of an attempt are never stored
storeBest_never(stored, validSuggestions) == stored

\* Variant: any non-empty list replaces what is stored
storeBest_last(stored, validSuggestions) ==
  IF Len(validSuggestions) > 0 THEN validSuggestions ELSE stored

\* "Store best suggestions so far"
storeBest(stored, validSuggestions) ==
  IF Len(validSuggestions) > 0 /\ Len(validSuggestions) > Len(stored)
  THEN validSuggestions ELSE stored

(***************************************************************************)
(* AIService.generateFallbackMessage                                       *)
(***************************************************************************)
W_fix == <<"f", "i", "x">>
W_bug == <<"b", "u", "g">>
W_error == <<"e", "r", "r", "o", "r">>
W_feat == <<"f", "e", "a", "t">>
W_add == <<"a", "d", "d">>
W_new == <<"n", "e", "w">>
W_doc == <<"d", "o", "c">>
W_readme == <<"r", "e", "a", "d", "m", "e">>
W_refactor == <<"r", "e", "f", "a", "c", "t", "o", "r">>
W_docs == <<"d", "o", "c", "s">>
W_chore == <<"c", "h", "o", "r", "e">>
W_files == <<"f", "i", "l", "e", "s">>
W_update == <<":", " ", "u", "p", "d", "a", "t", "e", " ">>
W_code == <<"c", "o", "d", "e">>
PLUSES == <<"+", "+", "+">>

\* Variant: the words of feat are looked for before those of fix
fallbackType_featFirst(combinedDiff) ==
  IF includes(combinedDiff, W_feat) \/ includes(combinedDiff, W_add)
     \/ includes(combinedDiff, W_new)
  THEN W_feat
  ELSE IF includes(combinedDiff, W_fix) \/ includes(combinedDiff, W_bug)
          \/ includes(combinedDiff, W_error)
  THEN W_fix
  ELSE IF includes(combinedDiff, W_doc) \/ includes(combinedDiff, W_readme)
  THEN W_docs
  ELSE IF includes(combinedDiff, W_refactor)
  THEN W_refactor
  ELSE W_chore

fallbackType(combinedDiff) ==
  IF includes(combinedDiff, W_fix) \/ includes(combinedDiff, W_bug)
     \/ includes(combinedDiff, W_error)
  THEN W_fix
  ELSE IF includes(combinedDiff, W_feat) \/ includes(combinedDiff, W_add)
          \/ includes(combinedDiff, W_new)
  THEN W_feat
  ELSE IF includes(combinedDiff, W_doc) \/ includes(combinedDiff, W_readme)
  THEN W_docs
  ELSE IF includes(combinedDiff, W_refactor)
  THEN W_refactor
  ELSE W_chore

FallbackLines == 5

\* .replace(/^[+-]{3}\s+/, '')
stripMarker(line) ==
  IF /\ Len(line) >= 4
     /\ \A i \in 1..3 : line[i] \in {"+", "-"}
     /\ line[4] \in WhiteSpace
  THEN SubSeq(line, RunEnd(line, 3, WhiteSpace) + 1, Len(line))
  ELSE line

\* Variant: the first segment of the path is taken
lastSegment_first(path) ==
  LET parts == split(path, <<"/">>)
  IN  IF parts[1] = <<>> THEN W_files ELSE parts[1]

\* .split('/').pop() || 'files'
lastSegment(path) ==
  LET parts == split(path, <<"/">>)
      last == parts[Len(parts)]
  IN  IF last = <<>> THEN W_files ELSE last

\* Variant: no message is produced (null)
generateFallbackMessage_null(d) == <<>>

generateFallbackMessage(d) ==
  LET combinedDiff == toLowerCase(d.staged \o NL \o d.unstaged)
      type == fallbackType(combinedDiff)
      all == split(combinedDiff, NL)
      lines == SubSeq(all, 1, IF Len(all) < FallbackLines THEN Len(all) ELSE FallbackLines)
      fileChanges == SelectSeq(lines, LAMBDA l : startsWith(l, PLUSES) \/ startsWith(l, DASHES))
  IN  IF Len(fileChanges) > 0
      THEN type \o W_update \o lastSegment(stripMarker(fileChanges[1]))
      ELSE type \o W_update \o W_code

(***************************************************************************)
(* Inputs: what the generator may answer, how it may fail, the diffs       *)
(***************************************************************************)
\* an empty response
R_empty == <<>>

\* a whitespace-only response
R_blank ==
  <<" ", "\n">>

\* a response holding no commit message
R_noise ==
  <<"s", "o", "r", "r", "y">>

\* one valid single-line message
R_one ==
  <<"f", "e", "a", "t", ":", " ", "a">>

\* another valid single-line message
R_other ==
  <<"f", "i", "x", ":", " ", "b">>

\* one candidate, which the validator rejects
R_invalid ==
  <<"f", "e", "a", "t", ":", " ", "A", "d", "d", " ", "x">>

\* two candidates, the first valid
R_partial ==
  <<"d", "o", "c", "s", ":", " ", "c", "\n", "-", "-", "-", "\n", "f", "i",
    "x", ":", " ", "B">>

\* two valid single-line messages
R_two ==
  <<"f", "e", "a", "t", ":", " ", "a", "\n", "-", "-", "-", "\n", "f", "i",
    "x", ":", " ", "b">>

\* a multi-line message, then a single-line one
R_mixed ==
  <<"f", "e", "a", "t", ":", " ", "a", "\n", "\n", "x", "\n", "-", "-", "-",
    "\n", "f", "i", "x", ":", " ", "b">>

\* two valid multi-line messages
R_multi ==
  <<"f", "e", "a", "t", ":", " ", "a", "\n", "\n", "x", "\n", "-", "-", "-",
    "\n", "f", "i", "x", ":", " ", "b", "\n", "\n", "y">>

\* a multi-line message, then five single-line ones
R_six ==
  <<"f", "e", "a", "t", ":", " ", "a", "\n", "\n", "x", "\n", "-", "-", "-",
    "\n", "f", "i", "x", ":", " ", "b", "\n", "-", "-", "-", "\n", "d", "o",
    "c", "s", ":", " ", "c", "\n", "-", "-", "-", "\n", "t", "e", "s", "t",
    ":", " ", "d", "\n", "-", "-", "-", "\n", "c", "i", ":", " ", "e", "\n",
    "-", "-", "-", "\n", "p", "e", "r", "f", ":", " ", "f">>

\* six valid multi-line messages
R_sixMulti ==
  <<"f", "e", "a", "t", ":", " ", "a", "\n", "\n", "x", "\n", "-", "-", "-",
    "\n", "f", "i", "x", ":", " ", "a", "\n", "\n", "x", "\n", "-", "-", "-",
    "\n", "d", "o", "c", "s", ":", " ", "a", "\n", "\n", "x", "\n", "-", "-",
    "-", "\n", "t", "e", "s", "t", ":", " ", "a", "\n", "\n", "x", "\n", "-",
    "-", "-", "\n", "c", "i", ":", " ", "a", "\n", "\n", "x", "\n", "-", "-",
    "-", "\n", "p", "e", "r", "f", ":", " ", "a", "\n", "\n", "x">>

Responses ==
  {R_empty, R_blank, R_noise, R_one, R_other, R_invalid,
   R_partial, R_two, R_mixed, R_multi, R_six, R_sixMulti}

E_quota ==
  <<"Q", "u", "o", "t", "a", " ", "e", "x", "c", "e", "e", "d", "e", "d">>

E_rate ==
  <<"4", "2", "9", " ", "R", "a", "t", "e", " ", "l", "i", "m", "i", "t">>

E_key ==
  <<"A", "P", "I", " ", "k", "e", "y", " ", "n", "o", "t", " ", "v", "a",
    "l", "i", "d">>

E_permission ==
  <<"P", "e", "r", "m", "i", "s", "s", "i", "o", "n", " ", "d", "e", "n",
    "i", "e", "d">>

E_timeout ==
  <<"s", "o", "c", "k", "e", "t", " ", "t", "i", "m", "e", "o", "u", "t">>

E_other ==
  <<"f", "e", "t", "c", "h", " ", "f", "a", "i", "l", "e", "d">>

\* messages that hold the words of two kinds of error
E_timeoutQuota == <<"T", "i", "m", "e", "o", "u", "t", ":", " ", "q", "u", "o", "t", "a", " ", "e", "x", "c", "e", "e", "d", "e", "d">>

E_timeoutAuth == <<"A", "u", "t", "h", " ", "t", "i", "m", "e", "o", "u", "t">>

E_authRate == <<"u", "n", "a", "u", "t", "h", "o", "r", "i", "z", "e", "d", ",", " ", "r", "a", "t", "e", " ", "l", "i", "m", "i", "t">>

\* The messages of the errors generateContent may reject with
ErrorMessages ==
  {E_quota, E_rate, E_key, E_permission, E_timeout, E_other,
   E_timeoutQuota, E_timeoutAuth, E_authRate}

\* new Error('Request timeout') of the timeout promise
RequestTimeout ==
  <<"R", "e", "q", "u", "e", "s", "t", " ", "t", "i", "m", "e", "o", "u",
    "t">>

D_none_staged == <<>>

D_none_unstaged == <<>>

D_login_staged ==
  <<"+", "+", "+", " ", "b", "/", "s", "r", "c", "/", "f", "i", "x", "_",
    "l", "o", "g", "i", "n", ".", "t", "s", "\n", "+", "b", "u", "g">>

D_login_unstaged == <<>>

D_readme_staged == <<>>

D_readme_unstaged ==
  <<"d", "i", "f", "f", " ", "-", "-", "g", "i", "t", " ", "a", "/", "R",
    "E", "A", "D", "M", "E", ".", "m", "d", " ", "b", "/", "R", "E", "A",
    "D", "M", "E", ".", "m", "d", "\n", "-", "-", "-", " ", "a", "/", "R",
    "E", "A", "D", "M", "E", ".", "m", "d">>

D_long_staged ==
  <<"+", "+", "+", " ", "b", "/", "s", "r", "c", "/", "a", "a", "a", "a",
    "a", "a", "a", "a", "a", "a", "a", "a", "a", "a", "a", "a", "a", "a",
    "a", "a", "a", "a", "a", "a", "a", "a", "a", "a", "a", "a", "a", "a",
    "a", "a", "a", "a", "a", "a", "a", "a", "a", "a", "a", "a", "a", "a",
    "a", "a", "a", "a", "a", "a", "a", "a", "a", "a", ".", "t", "s">>

D_long_unstaged == <<>>

D_dir_staged == <<>>

\* a marker line whose path ends in a slash
D_dir_unstaged == <<"-", "-", "-", " ", "a", "/", "d", "i", "r", "/">>

Diffs ==
  {[staged |-> D_none_staged, unstaged |-> D_none_unstaged],
   [staged |-> D_login_staged, unstaged |-> D_login_unstaged],
   [staged |-> D_readme_staged, unstaged |-> D_readme_unstaged],
   [staged |-> D_long_staged, unstaged |-> D_long_unstaged],
   [staged |-> D_dir_staged, unstaged |-> D_dir_unstaged]}

(***************************************************************************)
(* AIService.generateCommitMessages                                        *)
(***************************************************************************)
maxAttempts == 3

vars ==
  <<diff, pc, attempts, bestSuggestions, result, error, calls,
    pendingCalls, pendingTimers, exit, trace, arg, ret>>

\* The variables of a run of generateCommitMessages
run ==
  <<diff, pc, attempts, bestSuggestions, result, error, calls,
    pendingCalls, pendingTimers, exit, trace>>

Outcome(kind, text) == [kind |-> kind, text |-> text]

Init ==
  /\ diff \in Diffs
  /\ pc = "idle"
  /\ attempts = 0
  /\ bestSuggestions = <<>>
  /\ result = <<>>
  /\ error = "none"
  /\ calls = 0
  /\ pendingCalls = {}
  /\ pendingTimers = {}
  /\ exit = "none"
  /\ trace = <<>>
  /\ arg = <<>>
  /\ ret = <<>>

\* return list, at the return statement named by where
Return(where, list, best) ==
  /\ pc' = "returned"
  /\ exit' = where
  /\ result' = list
  /\ bestSuggestions' = best
  /\ UNCHANGED <<attempts, error, calls>>

\* throw
Throw(e, best) ==
  /\ pc' = "thrown"
  /\ error' = e
  /\ bestSuggestions' = best
  /\ UNCHANGED <<attempts, result, calls, exit>>

\* Top of the loop body: attempts++, then the race of generateContent
\* against a fresh 30 s timer. settledCalls and firedTimers are the pending
\* sets left by the step that got here.
StartAttempt(best, settledCalls, firedTimers) ==
  /\ pc' = "awaiting"
  /\ attempts' = attempts + 1
  /\ calls' = calls + 1
  /\ bestSuggestions' = best
  /\ pendingCalls' = settledCalls \cup {attempts + 1}
  /\ pendingTimers' = firedTimers \cup {attempts + 1}
  /\ UNCHANGED <<result, error, exit>>

\* The code after the loop
AfterLoop(best) ==
  IF Len(best) >= 1
  THEN Return("best", sliceFive(best), best)
  ELSE LET fallbackMessage == generateFallbackMessage(diff)
       IN  IF fallbackMessage # <<>>
           THEN Return("fallback", <<[message |-> fallbackMessage, type |-> SingleLine]>>, best)
           ELSE Throw("noValidSuggestions", best)

\* Variant: the loop goes on whatever the number of attempts
LoopAgain_unbounded(best, settledCalls, firedTimers) ==
  StartAttempt(best, settledCalls, firedTimers)

\* The loop condition, reached by continue or by falling out of try/catch
LoopAgain(best, settledCalls, firedTimers) ==
  IF attempts < maxAttempts
  THEN StartAttempt(best, settledCalls, firedTimers)
  ELSE /\ AfterLoop(best)
       /\ pendingCalls' = settledCalls
       /\ pendingTimers' = firedTimers

\* Whether the partial result asks for another attempt (line 259)
wantsMore(validSuggestions, n) ==
  Len(validSuggestions) > 0 /\ Len(validSuggestions) < MinSuggestions /\ n < maxAttempts

\* Variant: a result short of the requirements is never returned from the loop
goodEnough_never(validSuggestions) == FALSE

\* Variant: two valid suggestions short of the requirements are not returned
goodEnough_overTwo(validSuggestions) == Len(validSuggestions) > MinSuggestions

\* Whether the result is returned although the requirements are not met (line 265)
goodEnough(validSuggestions) == Len(validSuggestions) >= MinSuggestions

\* The try block once the race resolved with a response holding text
HandleResponse(text, settledCalls, firedTimers) ==
  IF trim(text) = <<>>
  THEN LoopAgain(bestSuggestions, settledCalls, firedTimers)
  ELSE
    \E parsedSuggestions \in {parseResponse(text)} :
    \E validSuggestions \in {filterValidSuggestions(parsedSuggestions)} :
    \E best \in {storeBest(bestSuggestions, validSuggestions)} :
      IF Len(parsedSuggestions) = 0
      THEN LoopAgain(bestSuggestions, settledCalls, firedTimers)
      ELSE IF Len(validSuggestions) > 0 /\ meetsMinimumRequirements(validSuggestions)
      THEN /\ Return("accepted", acceptedSuggestions(validSuggestions), bestSuggestions)
           /\ pendingCalls' = settledCalls
           /\ pendingTimers' = firedTimers
      ELSE IF wantsMore(validSuggestions, attempts)
      THEN LoopAgain(best, settledCalls, firedTimers)
      ELSE IF goodEnough(validSuggestions)
      THEN /\ Return("enough", sliceFive(validSuggestions), best)
           /\ pendingCalls' = settledCalls
           /\ pendingTimers' = firedTimers
      ELSE LoopAgain(best, settledCalls, firedTimers)

W_rateLimit == <<"r", "a", "t", "e", " ", "l", "i", "m", "i", "t">>
W_quota == <<"q", "u", "o", "t", "a">>
W_apiKey == <<"a", "p", "i", " ", "k", "e", "y">>
W_auth == <<"a", "u", "t", "h">>
W_permission == <<"p", "e", "r", "m", "i", "s", "s", "i", "o", "n">>
W_timeout == <<"t", "i", "m", "e", "o", "u", "t">>
W_requestTimeout == <<"r", "e", "q", "u", "e", "s", "t", " ", "t", "i", "m", "e", "o", "u", "t">>

\* Variant: a quota message is not taken for a rate limit
isRateLimit_noQuota(errorMessage) == includes(errorMessage, W_rateLimit)

isRateLimit(errorMessage) ==
  includes(errorMessage, W_rateLimit) \/ includes(errorMessage, W_quota)

isAuth(errorMessage) ==
  \/ includes(errorMessage, W_apiKey)
  \/ includes(errorMessage, W_auth)
  \/ includes(errorMessage, W_permission)

\* Variant: every error left is taken for a timeout
isTimeout_any(errorMessage) == TRUE

isTimeout(errorMessage) ==
  includes(errorMessage, W_timeout) \/ includes(errorMessage, W_requestTimeout)

\* Variant: a timeout is retried whatever the attempt
timeoutIsFinal_never(n) == FALSE

\* Whether a timeout is thrown rather than retried (line 285)
timeoutIsFinal(n) == n >= maxAttempts

\* Variant: the test for a timeout comes first
HandleError_timeoutFirst(message, settledCalls, firedTimers) ==
  \E errorMessage \in {toLowerCase(message)} :
    IF isTimeout(errorMessage)
    THEN IF timeoutIsFinal(attempts)
         THEN /\ Throw("timeout", bestSuggestions)
              /\ pendingCalls' = settledCalls
              /\ pendingTimers' = firedTimers
         ELSE LoopAgain(bestSuggestions, settledCalls, firedTimers)
    ELSE IF isRateLimit(errorMessage)
    THEN /\ Throw("rateLimitExceeded", bestSuggestions)
         /\ pendingCalls' = settledCalls
         /\ pendingTimers' = firedTimers
    ELSE IF isAuth(errorMessage)
    THEN /\ Throw("authenticationFailed", bestSuggestions)
         /\ pendingCalls' = settledCalls
         /\ pendingTimers' = firedTimers
    ELSE LoopAgain(bestSuggestions, settledCalls, firedTimers)

\* The catch block
HandleError(message, settledCalls, firedTimers) ==
  \E errorMessage \in {toLowerCase(message)} :
    IF isRateLimit(errorMessage)
    THEN /\ Throw("rateLimitExceeded", bestSuggestions)
         /\ pendingCalls' = settledCalls
         /\ pendingTimers' = firedTimers
    ELSE IF isAuth(errorMessage)
    THEN /\ Throw("authenticationFailed", bestSuggestions)
         /\ pendingCalls' = settledCalls
         /\ pendingTimers' = firedTimers
    ELSE IF isTimeout(errorMessage) /\ timeoutIsFinal(attempts)
    THEN /\ Throw("timeout", bestSuggestions)
         /\ pendingCalls' = settledCalls
         /\ pendingTimers' = firedTimers
    ELSE LoopAgain(bestSuggestions, settledCalls, firedTimers)

\* generateCommitMessages(diff) is called: runs to the first await
Generate ==
  /\ pc = "idle"
  /\ LoopAgain(bestSuggestions, pendingCalls, pendingTimers)
  /\ UNCHANGED <<diff, trace, arg, ret>>

\* generateContent of the current attempt resolves before the timer fires
GeneratorResponds ==
  /\ pc = "awaiting"
  /\ attempts \in pendingCalls
  /\ \E text \in Responses :
       /\ trace' = Append(trace, Outcome("response", text))
       /\ HandleResponse(text, pendingCalls \ {attempts}, pendingTimers)
  /\ UNCHANGED <<diff, arg, ret>>

\* generateContent of the current attempt rejects before the timer fires
GeneratorFails ==
  /\ pc = "awaiting"
  /\ attempts \in pendingCalls
  /\ \E message \in ErrorMessages :
       /\ trace' = Append(trace, Outcome("error", message))
       /\ HandleError(message, pendingCalls \ {attempts}, pendingTimers)
  /\ UNCHANGED <<diff, arg, ret>>

\* The timer of the current attempt fires first: the race rejects with
\* 'Request timeout'; generateContent is left running.
TimerFires ==
  /\ pc = "awaiting"
  /\ attempts \in pendingTimers
  /\ \A k \in pendingTimers : k >= attempts
  /\ trace' = Append(trace, Outcome("timeout", RequestTimeout))
  /\ HandleError(RequestTimeout, pendingCalls, pendingTimers \ {attempts})
  /\ UNCHANGED <<diff, arg, ret>>

\* Variant: the response of a call whose race is over is taken for the
\* response of the attempt under way
AbandonedCallSettles_delivered ==
  /\ pc = "awaiting"
  /\ \E k \in pendingCalls :
       /\ k # attempts
       /\ \E text \in Responses :
            HandleResponse(text, pendingCalls \ {k, attempts}, pendingTimers)
  /\ UNCHANGED <<diff, trace, arg, ret>>

\* A generateContent call whose race is over settles: nobody listens
AbandonedCallSettles ==
  /\ \E k \in pendingCalls :
       /\ pc # "awaiting" \/ k # attempts
       /\ pendingCalls' = pendingCalls \ {k}
  /\ UNCHANGED <<diff, pc, attempts, bestSuggestions, result, error, calls,
                 pendingTimers, exit, trace, arg, ret>>

\* Variant: the timer of a race that is over rejects the run
StaleTimerFires_rejects ==
  /\ \E k \in pendingTimers :
       /\ pc # "awaiting" \/ k # attempts
       /\ \A j \in pendingTimers : j >= k
       /\ pendingTimers' = pendingTimers \ {k}
  /\ pc' = "thrown"
  /\ error' = "timeout"
  /\ UNCHANGED <<diff, attempts, bestSuggestions, result, calls,
                 pendingCalls, exit, trace, arg, ret>>

\* The timer of a race that is over fires (timers are never cleared)
StaleTimerFires ==
  /\ \E k \in pendingTimers :
       /\ pc # "awaiting" \/ k # attempts
       /\ \A j \in pendingTimers : j >= k
       /\ pendingTimers' = pendingTimers \ {k}
  /\ UNCHANGED <<diff, pc, attempts, bestSuggestions, result, error, calls,
                 pendingCalls, exit, trace, arg, ret>>

Next ==
  \/ Generate
  \/ GeneratorResponds
  \/ GeneratorFails
  \/ TimerFires
  \/ AbandonedCallSettles
  \/ StaleTimerFires

Spec == Init /\ [][Next]_vars

\* A timer that was set fires 30 s later: first those of the races that
\* are over, then the one of the attempt under way
TimersFire == WF_vars(StaleTimerFires) /\ WF_vars(TimerFires)

\* The runs in which no await lasts for ever
SpecLive == Spec /\ TimersFire

(***************************************************************************)
(* meetsMinimumRequirements applied on its own to lists of suggestions     *)
(***************************************************************************)
\* Suggestions as parseResponse builds them: two single-line, one multi-line
PolicyPool ==
  {parseResponse(R_two)[i] : i \in 1..2} \cup {parseResponse(R_mixed)[1]}

MaxPolicyLen == 4

PolicyInputs == UNION {[1..n -> PolicyPool] : n \in 0..MaxPolicyLen}

InitPolicy ==
  /\ arg \in PolicyInputs
  /\ ret = <<>>
  /\ diff = [staged |-> D_none_staged, unstaged |-> D_none_unstaged]
  /\ pc = "idle"
  /\ attempts = 0
  /\ bestSuggestions = <<>>
  /\ result = <<>>
  /\ error = "none"
  /\ calls = 0
  /\ pendingCalls = {}
  /\ pendingTimers = {}
  /\ exit = "none"
  /\ trace = <<>>

ApplyPolicy ==
  /\ ret = <<>>
  /\ ret' = <<meetsMinimumRequirements(arg)>>
  /\ UNCHANGED <<arg, run>>

NextPolicy == ApplyPolicy

SpecPolicy == InitPolicy /\ [][NextPolicy]_vars

(***************************************************************************)
(* ConventionalCommitsValidator applied on its own to messages             *)
(***************************************************************************)
\* Messages are put together from a type, a scope, a breaking mark, what
\* follows them up to the description, the description, a target length
\* the subject is padded to, and what follows the subject.
PartTypes == {VALID_TYPES[1], VALID_TYPES[10], <<"f", "o", "o">>, <<"F", "i", "x">>}

PartScopes == {<<>>, <<"(", "a", "p", "i", "-", "2", ")">>, <<"(", "A", "p", "i", ")">>, <<"(", ")">>}

PartMarks == {<<>>, <<"!">>}

PartColons == {<<":", " ">>, <<":", "\t">>, <<":", "">>, <<":">>}

PartDescriptions == {<<>>, <<" ">>, <<"x">>, <<"X", "y">>, <<" ", "X">>}

ExactFit == MaxSubjectLength

OverFit == MaxSubjectLength + 1

PartFills == {0, ExactFit, OverFit}

PartRests == {<<>>, <<"\n">>, <<"\n", "\n", "b", "\n", "c">>, <<"\n", "b">>, <<"\n", " ", "\n", "b", " ">>}

MessageParts ==
  [type : PartTypes, scope : PartScopes, mark : PartMarks, colon : PartColons,
   description : PartDescriptions, fill : PartFills, rest : PartRests]

\* The subject of the parts p, padded with "a" up to p.fill characters
SubjectOf(p) ==
  LET head == p.type \o p.scope \o p.mark \o p.colon \o p.description
  IN  head \o [i \in 1..(IF Len(head) < p.fill THEN p.fill - Len(head) ELSE 0) |-> "a"]

MessageOf(p) == SubjectOf(p) \o p.rest

\* Messages that are not of that shape, as parts all the same: the empty
\* message, a blank one, one without a colon, one whose first line is empty
Unshaped(type, rest) ==
  [type |-> type, scope |-> <<>>, mark |-> <<>>, colon |-> <<>>,
   description |-> <<>>, fill |-> 0, rest |-> rest]

RawParts ==
  {Unshaped(<<>>, <<>>), Unshaped(<<" ">>, <<"\n">>), Unshaped(<<"s", "o", "r", "r", "y">>, <<>>),
   Unshaped(<<>>, <<"\n", "f", "e", "a", "t", ":", " ", "x">>)}

ValidateInputs == MessageParts \cup RawParts

\* No run of generateCommitMessages is under way
NoRun ==
  /\ diff = [staged |-> D_none_staged, unstaged |-> D_none_unstaged]
  /\ pc = "idle"
  /\ attempts = 0
  /\ bestSuggestions = <<>>
  /\ result = <<>>
  /\ error = "none"
  /\ calls = 0
  /\ pendingCalls = {}
  /\ pendingTimers = {}
  /\ exit = "none"
  /\ trace = <<>>

InitValidate ==
  /\ arg \in ValidateInputs
  /\ ret = <<>>
  /\ NoRun

\* The function named fn has been applied
Applied(fn) == \E i \in 1..Len(ret) : ret[i].fn = fn

\* ConventionalCommitsValidator.validate of the message of arg
Validate ==
  /\ ~Applied("validate")
  /\ \E v \in {validate(MessageOf(arg))} :
       ret' = Append(ret, [fn |-> "validate", value |-> v])
  /\ UNCHANGED <<arg, run>>

\* ConventionalCommitsValidator.parseCommitMessage of the message of arg
ParseCommitMessage ==
  /\ ~Applied("parseCommitMessage")
  /\ \E v \in {parseCommitMessage(MessageOf(arg))} :
       ret' = Append(ret, [fn |-> "parseCommitMessage", value |-> v])
  /\ UNCHANGED <<arg, run>>

NextValidate ==
  \/ Validate
  \/ ParseCommitMessage

SpecValidate == InitValidate /\ [][NextValidate]_vars

(***************************************************************************)
(* parseResponse applied on its own to responses                           *)
(***************************************************************************)
\* A response is an optional numbering, a segment, a separator, a segment
\* and an optional closing paragraph.
PartLeads == {<<>>, <<"1", ".", " ">>}

\* a message behind a list bullet
T_bulleted == <<"-", " ", "f", "i", "x", ":", " ", "b">>

PartSegments ==
  {R_one, R_other, R_noise, <<"s", "e", "e", " ", "f", "i", "x", ":", " ", "b">>,
   T_bulleted, <<>>}

PartSeparators == {tripleDashPattern, DASHES, NL, <<"\n", "\n">>, <<"\n", "2", ".", " ">>, <<" ">>}

PartTails == {<<>>, <<"\n", "\n", "n", "o", "t", "e">>}

ShapedInputs ==
  {lead \o first \o sep \o second \o tail :
     lead \in PartLeads, first \in PartSegments, sep \in PartSeparators,
     second \in PartSegments, tail \in PartTails}

\* Message texts that hold no line of three hyphens: a subject, a padded
\* subject, a subject with a body, a subject with hyphens inside, a remark.
T_padded == <<" ", "f", "i", "x", ":", " ", "b", " ">>

T_body == <<"d", "o", "c", "s", ":", " ", "c", "\n", "\n", "n", "o", "t", "e">>

T_hyphens == <<"f", "e", "a", "t", ":", " ", "a", " ", "-", "-", "-", " ", "b">>

SeparatedTexts == {R_one, T_padded, T_body, T_hyphens, R_noise}

SeparatedLists ==
  {<<a, b>> : a, b \in SeparatedTexts}
    \cup {<<a, b, c>> : a, b, c \in SeparatedTexts}

\* Two or three message texts joined by a line of three hyphens
SeparatedInputs == {join(texts, tripleDashPattern) : texts \in SeparatedLists}

ParseInputs == ShapedInputs \cup SeparatedInputs \cup {R_empty, R_blank}

InitParse ==
  /\ arg \in ParseInputs
  /\ ret = <<>>
  /\ NoRun

\* AIService.parseResponse(arg)
ParseResponse ==
  /\ ~Applied("parseResponse")
  /\ \E v \in {parseResponse(arg)} :
       ret' = Append(ret, [fn |-> "parseResponse", value |-> v])
  /\ UNCHANGED <<arg, run>>

NextParse == ParseResponse

SpecParse == InitParse /\ [][NextParse]_vars

(***************************************************************************)
(* generateFallbackMessage applied on its own to diffs                     *)
(***************************************************************************)
\* A diff is, in its staged text, some lines of context, an optional marker
\* line (sign, gap, directory, file) and a word; and an unstaged text.
PartLines == {0, FallbackLines - 1, FallbackLines}

PartSigns == {PLUSES, DASHES}

PartGaps == {<<>>, <<" ">>}

PartDirs == {<<>>, <<"b", "/", "s", "r", "c", "/">>}

PartFiles == {<<>>, <<"f", "i", "x", "_", "l", "o", "g", "i", "n", ".", "t", "s">>, <<"Z", "e", "d", ".", "m", "d">>}

PartWords ==
  {<<>>, W_fix, W_bug, <<"B", "u", "g">>, W_error, W_feat, W_add, W_new, W_doc, <<"R", "E", "A", "D", "M", "E">>,
   W_refactor, <<"z", "z">>}

U_old == <<"-", "-", "-", " ", "a", "/", "o", "l", "d", ".", "t", "s">>

PartUnstaged == {<<>>, W_new, W_refactor, U_old}

NoMarker == [sign |-> <<>>, gap |-> <<>>, dir |-> <<>>, file |-> <<>>]

PartMarkers ==
  {NoMarker} \cup [sign : PartSigns, gap : PartGaps, dir : PartDirs, file : PartFiles]

DiffParts ==
  [lines : PartLines, marker : PartMarkers, word : PartWords, unstaged : PartUnstaged]

MarkerLine(k) == k.sign \o k.gap \o k.dir \o k.file

ContextLines(n) == [i \in 1..(2 * n) |-> IF i % 2 = 1 THEN "x" ELSE "\n"]

\* The GitDiff the parts stand for
DiffOf(p) ==
  [staged |-> ContextLines(p.lines)
                \o (IF p.marker = NoMarker THEN <<>> ELSE MarkerLine(p.marker) \o NL)
                \o p.word,
   unstaged |-> p.unstaged]

InitFallback ==
  /\ arg \in DiffParts
  /\ ret = <<>>
  /\ NoRun

\* AIService.generateFallbackMessage of the diff of arg
GenerateFallbackMessage ==
  /\ ~Applied("generateFallbackMessage")
  /\ \E v \in {generateFallbackMessage(DiffOf(arg))} :
       ret' = Append(ret, [fn |-> "generateFallbackMessage", value |-> v])
  /\ UNCHANGED <<arg, run>>

NextFallback == GenerateFallbackMessage

SpecFallback == InitFallback /\ [][NextFallback]_vars

(***************************************************************************)
(* Properties of generateCommitMessages                                    *)
(***************************************************************************)

\* The run returned a list built from the generator's responses
ReturnedFromGenerator ==
  pc = "returned" /\ exit \in {"accepted", "enough", "best"}

\* The valid suggestions of the attempt that got the response text
Evaluated(text) == filterValidSuggestions(parseResponse(text))

\* The acceptance policy as the specification words it
Policy(list) ==
  /\ Len(list) >= 2
  /\ \E i \in 1..Len(list) : list[i].type = SingleLine

\* The first five elements of list
FirstFive(list) == [i \in 1..(IF Len(list) < 5 THEN Len(list) ELSE 5) |-> list[i]]

\* Attempt k got a response
Responded(k) == k \in 1..Len(trace) /\ trace[k].kind = "response"

\* Attempt k ended in a timeout: the 30 s timer, or an error that says so
TimedOut(k) ==
  k \in 1..Len(trace)
  /\ (trace[k].kind = "timeout" \/ trace[k] = Outcome("error", E_timeout))

\* All three attempts are used, none was accepted, no fatal error was raised
Exhausted ==
  /\ Len(trace) = 3
  /\ pc \in {"returned", "thrown"}
  /\ exit # "accepted"
  /\ error \notin {"rateLimitExceeded", "authenticationFailed"}

\* The fallback message of the diff as the only suggestion
FallbackOnly ==
  <<[message |-> generateFallbackMessage(diff), type |-> SingleLine]>>

\* Attempt k ended in the error whose message is m
FailedWith(k, m) ==
  k \in 1..Len(trace) /\ trace[k].kind = "error" /\ trace[k].text = m

\* C1: every suggestion of a list returned from the generator's responses
\* (not the fallback) has a message that validate accepts with no errors.
C1_ReturnedSuggestionsValid ==
  ReturnedFromGenerator =>
    \A i \in 1..Len(result) :
      /\ validate(result[i].message).valid
      /\ validate(result[i].message).errors = <<>>

\* A returned list whose response also held a candidate validate rejects
C1_Witness ==
  /\ ReturnedFromGenerator
  /\ Len(result) >= 1
  /\ trace[Len(trace)] = Outcome("response", R_partial)

\* C2 as the specification states it: the fallback message, whatever the
\* diff, is accepted by validate.
C2_FallbackValid ==
  (pc = "returned" /\ exit = "fallback") =>
    /\ Len(result) = 1
    /\ validate(result[1].message).valid

\* C3: an error classified as rate-limit/quota or authentication/permission
\* ends the run at once, on any attempt: it is the last thing that happened,
\* the matching error is raised, nothing is returned, and no call follows.
C3_FatalErrorsEndTheRun ==
  \A k \in 1..Len(trace) :
    /\ (FailedWith(k, E_quota) \/ FailedWith(k, E_rate)) =>
         /\ k = Len(trace) /\ pc = "thrown" /\ error = "rateLimitExceeded"
         /\ calls = k /\ result = <<>> /\ exit = "none"
    /\ (FailedWith(k, E_key) \/ FailedWith(k, E_permission)) =>
         /\ k = Len(trace) /\ pc = "thrown" /\ error = "authenticationFailed"
         /\ calls = k /\ result = <<>> /\ exit = "none"

\* A quota error on the third attempt, with suggestions stored by then
C3_Witness ==
  /\ FailedWith(3, E_quota)
  /\ bestSuggestions # <<>>
  /\ pc = "thrown"

\* C4: a response whose evaluated set meets the policy makes the run return
\* in that same step: no call follows, and the list holds only suggestions
\* of that attempt, as many as the set has up to five.
C4_AcceptedAtOnce ==
  \A k \in 1..Len(trace) :
    (Responded(k) /\ Policy(Evaluated(trace[k].text))) =>
      /\ k = Len(trace) /\ pc = "returned" /\ calls = k /\ attempts = k
      /\ Len(result) = Len(FirstFive(Evaluated(trace[k].text)))
      /\ \A i \in 1..Len(result) :
           \E j \in 1..Len(Evaluated(trace[k].text)) :
             result[i] = Evaluated(trace[k].text)[j]

\* The policy is met on the second attempt, after the first stored one
C4_Witness ==
  /\ Len(trace) = 2
  /\ trace[1] = Outcome("response", R_one)
  /\ trace[2] = Outcome("response", R_two)
  /\ pc = "returned"

\* C5: the accepted list is the evaluated set with its single-line
\* suggestions first, each group in its original order, cut to five after
\* that reordering.
C5_SingleLineFirstThenFive ==
  (pc = "returned" /\ exit = "accepted") =>
    LET set == Evaluated(trace[Len(trace)].text)
    IN  result = FirstFive(SelectSeq(set, LAMBDA s : s.type = SingleLine)
                           \o SelectSeq(set, LAMBDA s : s.type # SingleLine))

\* Six valid suggestions, a multi-line one leading: it is the one cut
C5_Witness ==
  /\ pc = "returned" /\ exit = "accepted"
  /\ trace[Len(trace)] = Outcome("response", R_six)
  /\ Len(result) = 5
  /\ \A i \in 1..5 : result[i].type = SingleLine

\* C6: meetsMinimumRequirements holds of a list exactly when the list has at
\* least two suggestions and at least one of them is single-line.
C6_PolicyIsTwoWithOneSingleLine ==
  ret # <<>> => (ret[1] <=> Policy(arg))

\* Two suggestions, one of them single-line: the smallest list that passes
C6_Witness ==
  /\ ret = <<TRUE>>
  /\ Len(arg) = 2
  /\ Cardinality({i \in 1..2 : arg[i].type = SingleLine}) = 1

\* C7: once the three attempts are used with neither acceptance nor a
\* fatal error, the run returns the stored suggestions cut to five if there
\* are any and the fallback otherwise, whatever ended the third attempt, a
\* timeout included.
C7_ExhaustionAlwaysReturns ==
  Exhausted =>
    /\ pc = "returned"
    /\ result = IF bestSuggestions # <<>> THEN FirstFive(bestSuggestions)
                ELSE FallbackOnly

\* The timer of the third attempt fires while suggestions are stored: the
\* timeout error is raised and the stored suggestions are not returned
C7_Witness ==
  /\ Exhausted
  /\ trace[3].kind = "timeout"
  /\ bestSuggestions # <<>>
  /\ pc = "thrown"

\* C8 as the specification states it: a response whose evaluated set does
\* not meet the policy, on attempt 1 or 2, is followed by another call, and
\* a list short of the policy is returned only after three attempts.
C8_ShortOfPolicyRetried ==
  /\ \A k \in 1..Len(trace) :
       (Responded(k) /\ ~Policy(Evaluated(trace[k].text)) /\ k < 3) => calls > k
  /\ (pc = "returned" /\ exit \in {"enough", "best"}) => Len(trace) = 3

\* C8, amended: on attempt 1 or 2 a response with fewer than two valid
\* suggestions is followed by another call; one with two or more valid
\* suggestions, none single-line, is returned at once cut to five. A list
\* of fewer than two suggestions is returned only after three attempts.
C8_FewerThanTwoRetried ==
  /\ \A k \in 1..Len(trace) :
       (Responded(k) /\ ~Policy(Evaluated(trace[k].text)) /\ k < 3) =>
         IF Len(Evaluated(trace[k].text)) < 2
         THEN calls > k
         ELSE /\ k = Len(trace) /\ pc = "returned" /\ calls = k
              /\ result = FirstFive(Evaluated(trace[k].text))
  /\ (pc = "returned" /\ exit \in {"enough", "best"} /\ Len(trace) < 3) =>
       /\ Len(result) >= 2
       /\ \A i \in 1..Len(result) : result[i].type # SingleLine

\* One valid suggestion on the first attempt: a second call is under way
C8_Witness ==
  /\ Len(trace) = 1
  /\ trace[1] = Outcome("response", R_partial)
  /\ calls = 2
  /\ pc = "awaiting"

\* C9: when each of the three attempts gets a response with exactly one
\* valid suggestion, three calls are made and the run returns a one-element
\* list, the suggestion of the first attempt; neither the fallback nor an
\* error comes of it.
C9_OneEachTimeReturnsOne ==
  (/\ Len(trace) = 3
   /\ \A k \in 1..3 : Responded(k) /\ Len(Evaluated(trace[k].text)) = 1) =>
    /\ pc = "returned" /\ calls = 3 /\ attempts = 3
    /\ Len(result) = 1
    /\ result = Evaluated(trace[1].text)
    /\ exit # "fallback" /\ error = "none"

\* Three attempts, each with one valid suggestion
C9_Witness ==
  /\ Len(trace) = 3
  /\ trace[1] = Outcome("response", R_partial)
  /\ trace[2] = Outcome("response", R_one)
  /\ trace[3] = Outcome("response", R_other)
  /\ pc = "returned"

\* C10: a timeout on attempt 1 or 2 is retried: attempts goes up by one, the
\* stored suggestions stay as they are, another call is issued and the run
\* keeps waiting. A timeout on attempt 3 raises the timeout error.
C10_TimeoutRetriedUntilThird ==
  [][(Len(trace') = Len(trace) + 1
      /\ (trace'[Len(trace')].kind = "timeout"
          \/ trace'[Len(trace')] = Outcome("error", E_timeout))) =>
       IF attempts < 3
       THEN /\ pc' = "awaiting" /\ attempts' = attempts + 1
            /\ bestSuggestions' = bestSuggestions
            /\ calls' = calls + 1 /\ error' = "none"
       ELSE /\ pc' = "thrown" /\ error' = "timeout"
            /\ calls' = calls /\ result' = <<>>]_vars

\* The timer of the second attempt fired with suggestions stored: the third
\* attempt is under way
C10_Witness ==
  /\ Len(trace) = 2
  /\ trace[1] = Outcome("response", R_one)
  /\ trace[2].kind = "timeout"
  /\ attempts = 3
  /\ pc = "awaiting"
  /\ bestSuggestions # <<>>

\* The outcomes the loop absorbs: a blank response, a response with
\* no candidate in it, or an error that is neither fatal nor a timeout
AbsorbedOutcomes ==
  {Outcome("response", r) :
     r \in {t \in Responses : trim(t) = <<>> \/ parseResponse(t) = <<>>}}
  \cup {Outcome("error", E_other)}

\* C11: an attempt that ends in a blank response, in a response without a
\* candidate, or in an error that is neither rate-limit, authentication nor
\* timeout leaves the stored suggestions as they are and raises nothing: on
\* attempt 1 or 2 the next attempt starts with one more call, on attempt 3
\* the run returns the stored suggestions cut to five, or the fallback.
C11_AbsorbedOutcomes ==
  [][(Len(trace') = Len(trace) + 1 /\ trace'[Len(trace')] \in AbsorbedOutcomes) =>
       /\ bestSuggestions' = bestSuggestions
       /\ error' = "none"
       /\ IF attempts < 3
          THEN /\ pc' = "awaiting" /\ attempts' = attempts + 1
               /\ calls' = calls + 1
          ELSE /\ pc' = "returned" /\ attempts' = attempts /\ calls' = calls
               /\ result' = IF bestSuggestions # <<>>
                            THEN FirstFive(bestSuggestions) ELSE FallbackOnly]_vars

\* A response without a candidate, another error, then a blank response:
\* the fallback is returned after three calls
C11_Witness ==
  /\ Len(trace) = 3
  /\ trace[1] = Outcome("response", R_noise)
  /\ trace[2] = Outcome("error", E_other)
  /\ trace[3] = Outcome("response", R_blank)
  /\ pc = "returned" /\ exit = "fallback" /\ calls = 3

\* C12: a run issues at most three generateContent calls, one per attempt,
\* and the call of an attempt is issued only once every earlier attempt has
\* ended; the attempt counter always equals the number of calls issued.
C12_OneCallPerAttempt ==
  /\ attempts = calls
  /\ calls <= 3
  /\ Len(trace) = IF pc = "awaiting" THEN calls - 1 ELSE calls
  /\ pendingCalls \subseteq 1..calls

\* The third call is issued after two attempts ended by their timers, the
\* two abandoned calls still unsettled
C12_Witness ==
  /\ calls = 3
  /\ pc = "awaiting"
  /\ pendingCalls = {1, 2, 3}
  /\ \A k \in 1..2 : trace[k].kind = "timeout"

\* C13: the fallback message is never empty and is a function of the diff
\* alone, so no run ends in the noValidSuggestions error.
C13_FallbackNeverFails ==
  /\ error # "noValidSuggestions"
  /\ generateFallbackMessage(diff) # <<>>
  /\ (pc = "returned" /\ exit = "fallback") =>
       /\ Len(result) = 1
       /\ result[1].message # <<>>
       /\ result[1].message = generateFallbackMessage(diff)

\* The fallback for a path that ends in a slash, where no file name is left
C13_Witness ==
  /\ pc = "returned" /\ exit = "fallback"
  /\ diff.unstaged = D_dir_unstaged
  /\ result[1].message = W_chore \o W_update \o W_files

(***************************************************************************)
(* Properties of ConventionalCommitsValidator                              *)
(***************************************************************************)

\* What validate and parseCommitMessage returned for the message of arg
Validation == ret[CHOOSE i \in 1..Len(ret) : ret[i].fn = "validate"].value

Parsed == ret[CHOOSE i \in 1..Len(ret) : ret[i].fn = "parseCommitMessage"].value

\* The ten types of the Conventional Commits convention
ClosedTypes == {VALID_TYPES[i] : i \in 1..10}

\* sc is "(", one or more of a-z, 0-9 and "-", then ")"
WellFormedScope(sc) ==
  /\ Len(sc) >= 3
  /\ sc[1] = "(" /\ sc[Len(sc)] = ")"
  /\ \A i \in 2..(Len(sc) - 1) : sc[i] \in Lower \cup Digit \cup {"-"}

\* What follows type, scope and mark on the subject line of p
AfterMark(p) ==
  LET subject == SubjectOf(p)
      n == Len(p.type) + Len(p.scope) + Len(p.mark)
  IN  SubSeq(subject, n + 1, Len(subject))

\* The subject of p has the shape the base pattern asks for: a word, an
\* optional well-formed scope, an optional mark, a colon, one white-space
\* character, and at least one more character
HasShape(p) ==
  /\ p.type # <<>> /\ \A i \in 1..Len(p.type) : p.type[i] \in WordChar
  /\ p.scope = <<>> \/ WellFormedScope(p.scope)
  /\ Len(AfterMark(p)) >= 3
  /\ AfterMark(p)[1] = ":"
  /\ AfterMark(p)[2] \in WhiteSpace

\* The description of a subject that has the shape
DescriptionOf(p) == SubSeq(AfterMark(p), 3, Len(AfterMark(p)))

Blank(text) == \A i \in 1..Len(text) : text[i] \in WhiteSpace

\* p.rest opens a second line that is not blank
SecondLineNotBlank(p) ==
  \E i \in 2..Len(p.rest) :
    /\ p.rest[i] \notin WhiteSpace
    /\ \A j \in 2..i : p.rest[j] # "\n"

\* The grammar of C14, with the subject at most limit characters long
Conforms(p, limit) ==
  /\ p.type \in ClosedTypes
  /\ p.scope = <<>> \/ WellFormedScope(p.scope)
  /\ Len(AfterMark(p)) >= 3
  /\ AfterMark(p)[1] = ":" /\ AfterMark(p)[2] = " "
  /\ ~Blank(DescriptionOf(p))
  /\ DescriptionOf(p)[1] \notin Upper
  /\ Len(SubjectOf(p)) <= limit
  /\ ~SecondLineNotBlank(p)

\* C14: validate accepts, with no error, every message whose subject is
\* type[(scope)][!]: description with a type of the closed set, a scope of
\* a-z, 0-9 and "-", a description that is not blank and does not start with
\* an upper-case letter, at most 72 characters, and a blank second line if
\* there is one; at 73 characters the same message is rejected.
C14_ConformingAccepted ==
  Applied("validate") =>
    /\ Conforms(arg, 72) => Validation.valid /\ Validation.errors = <<>>
    /\ (Conforms(arg, 73) /\ ~Conforms(arg, 72)) => ~Validation.valid

\* A conforming message with scope, mark and body whose subject is exactly
\* 72 characters long
C14_Witness ==
  /\ Applied("validate")
  /\ Conforms(arg, 72)
  /\ Len(SubjectOf(arg)) = 72
  /\ arg.scope # <<>> /\ arg.mark # <<>> /\ Len(arg.rest) > 2
  /\ Validation.valid

\* C15: for a message whose first line does not have the shape of the base
\* pattern, the empty and the blank message included, validate returns
\* valid = false with exactly one error and parseCommitMessage returns null.
C15_UnshapedOneError ==
  (Applied("validate") /\ Applied("parseCommitMessage") /\ ~HasShape(arg)) =>
    /\ ~Validation.valid
    /\ Len(Validation.errors) = 1
    /\ ~Parsed.ok

\* A subject that fails the pattern by its scope alone and would fail other
\* checks too
C15_Witness ==
  /\ Applied("validate") /\ Applied("parseCommitMessage")
  /\ arg.scope \in PartScopes /\ arg.scope # <<>> /\ ~WellFormedScope(arg.scope)
  /\ arg.type \notin ClosedTypes
  /\ Len(SubjectOf(arg)) = 73
  /\ Len(Validation.errors) = 1

\* The errors validate is to return for a subject that has the shape, one
\* per failed check, in the order of the checks
ExpectedErrors(p) ==
  (IF p.type \notin ClosedTypes
   THEN <<[code |-> "invalid-type", token |-> p.type]>> ELSE <<>>)
  \o (IF Blank(DescriptionOf(p))
      THEN <<[code |-> "empty-description", token |-> <<>>]>> ELSE <<>>)
  \o (IF DescriptionOf(p)[1] \in Upper
      THEN <<[code |-> "uppercase-description", token |-> <<>>]>> ELSE <<>>)
  \o (IF Len(SubjectOf(p)) > 72
      THEN <<[code |-> "subject-too-long", token |-> <<>>]>> ELSE <<>>)
  \o (IF SecondLineNotBlank(p)
      THEN <<[code |-> "no-blank-line", token |-> <<>>]>> ELSE <<>>)

\* C16: for a subject that has the shape, validate runs every check: errors
\* holds one entry per failed check (type, empty description, upper-case
\* description, length, blank second line) in that order, the type error
\* names the type, and valid is true exactly when errors is empty.
C16_EveryCheckRuns ==
  (Applied("validate") /\ HasShape(arg)) =>
    /\ Validation.errors = ExpectedErrors(arg)
    /\ Validation.valid <=> Validation.errors = <<>>

\* A subject that fails four checks at once
C16_Witness ==
  /\ Applied("validate") /\ HasShape(arg)
  /\ Len(Validation.errors) = 4
  /\ Validation.errors[1].token = arg.type

\* C17 as the specification states it: a subject whose colon is followed by
\* a tab, or by two or more spaces, is not reported valid.
C17_OneSpaceAfterColon ==
  (/\ Applied("validate")
   /\ Len(AfterMark(arg)) >= 3
   /\ AfterMark(arg)[1] = ":"
   /\ \/ AfterMark(arg)[2] = "\t"
      \/ AfterMark(arg)[2] = " " /\ AfterMark(arg)[3] = " ") =>
    ~Validation.valid

\* The number of lines of text that hold a character other than white
\* space: a line is counted at its first such character
NonBlankLines(text) ==
  Cardinality(
    {i \in 1..Len(text) :
       /\ text[i] \notin WhiteSpace
       /\ LET breaks == {k \in 1..(i - 1) : text[k] = "\n"}
              start == IF breaks = {} THEN 0 ELSE MaxOf(breaks)
          IN  \A j \in (start + 1)..(i - 1) : text[j] \in WhiteSpace})

\* C18: in every returned list, from the generator or the fallback, a
\* suggestion is single-line exactly when its message has one non-blank
\* line, which is what isSingleLine says of it; isSingleLine is false of a
\* message with no non-blank line.
C18_KindFollowsMessage ==
  /\ ~isSingleLine(R_empty)
  /\ ~isSingleLine(R_blank)
  /\ pc = "returned" =>
       \A i \in 1..Len(result) :
         /\ result[i].type \in {SingleLine, MultiLine}
         /\ result[i].type = SingleLine <=> NonBlankLines(result[i].message) = 1
         /\ result[i].type = SingleLine <=> isSingleLine(result[i].message)

\* A returned list with a single-line and a multi-line suggestion
C18_Witness ==
  /\ pc = "returned"
  /\ Len(result) = 2
  /\ result[1].type = SingleLine /\ NonBlankLines(result[1].message) = 1
  /\ result[2].type = MultiLine /\ NonBlankLines(result[2].message) = 2

\* The offsets of the line breaks of the message of arg
LineBreaks == {i \in 1..Len(MessageOf(arg)) : MessageOf(arg)[i] = "\n"}

\* What follows the second line of the message of arg
FromThirdLine ==
  SubSeq(MessageOf(arg), MinOf(LineBreaks \ {MinOf(LineBreaks)}) + 1,
         Len(MessageOf(arg)))

\* C19: a message validate accepts is parsed by parseCommitMessage: the
\* result is not null, its type is one of the ten, and its body is absent
\* when the message has fewer than three lines and is otherwise the text
\* from the third line on, trimmed.
C19_AcceptedIsParsed ==
  (Applied("validate") /\ Applied("parseCommitMessage") /\ Validation.valid) =>
    /\ Parsed.ok
    /\ Parsed.type \in ClosedTypes
    /\ Parsed.type = arg.type
    /\ IF Cardinality(LineBreaks) < 2
       THEN ~Parsed.hasBody
       ELSE Parsed.hasBody /\ Parsed.body = trim(FromThirdLine)

\* An accepted message with a body of two lines
C19_Witness ==
  /\ Applied("validate") /\ Applied("parseCommitMessage")
  /\ Validation.valid
  /\ Cardinality(LineBreaks) = 3
  /\ Parsed.body = <<"b", "\n", "c">>

(***************************************************************************)
(* Properties of parseResponse                                             *)
(***************************************************************************)

\* What parseResponse returned for arg
Suggestions == ret[CHOOSE i \in 1..Len(ret) : ret[i].fn = "parseResponse"].value

\* Two messages, each a type and a description, with a line break between
Concatenated == {first \o NL \o second : first, second \in {R_one, R_other}}

\* The messages left by strategies 1 to 4
AfterStrategy4 ==
  strategy4(arg, strategy3(arg, strategy2(arg, strategy1(arg))))

\* The messages of the pattern scan, or of the line-by-line extraction when
\* the scan finds nothing
ScanOrLines ==
  IF matchAll(arg, 0) # <<>> THEN mapTrim(matchAll(arg, 0))
  ELSE lineLoop(split(arg, NL), <<>>, <<>>)

\* C20 as the specification states it: a response that concatenates
\* type-prefixed messages with no separator, numbering or blank line is
\* split into one candidate per message.
C20_ConcatenatedIsSplit ==
  (Applied("parseResponse") /\ arg \in Concatenated) => Len(Suggestions) = 2

\* C20, amended: strategies 2, 3 and 4 are tried when the one before left
\* none or one message, the pattern scan and the line-by-line extraction
\* only when none is left; so what strategy 1 split stays as it is, one
\* message left by strategy 4 is the result, and a response that
\* concatenates type-prefixed messages stays one multi-line candidate.
C20_ScanOnlyWhenNoneLeft ==
  (Applied("parseResponse") /\ trim(arg) # <<>>) =>
    /\ Len(strategy1(arg)) >= 2 =>
         Suggestions = mapSuggestion(cleanUp(strategy1(arg)))
    /\ Len(AfterStrategy4) >= 1 =>
         Suggestions = mapSuggestion(cleanUp(AfterStrategy4))
    /\ Len(AfterStrategy4) = 0 =>
         Suggestions = mapSuggestion(cleanUp(ScanOrLines))
    /\ arg \in Concatenated =>
         Suggestions = <<[message |-> arg, type |-> MultiLine]>>

\* Two concatenated messages come back as one candidate
C20_Witness ==
  /\ Applied("parseResponse")
  /\ arg = R_one \o NL \o R_other
  /\ Len(Suggestions) = 1

\* The messages of the suggestions parseResponse returned
SuggestedMessages == [i \in 1..Len(Suggestions) |-> Suggestions[i].message]

\* C21: a response of two or more message texts joined by a line of three
\* hyphens gives those texts, trimmed and in order, and no later strategy
\* splits them again (the clean-up that follows keeps the texts that start
\* with a type); an empty or blank response gives no suggestion at all.
C21_SeparatorLineSplits ==
  Applied("parseResponse") =>
    /\ trim(arg) = <<>> => Suggestions = <<>>
    /\ \A texts \in SeparatedLists :
         arg = join(texts, tripleDashPattern) =>
           /\ Suggestions = mapSuggestion(cleanUp(mapTrim(texts)))
           /\ (\A i \in 1..Len(texts) : looksLikeCommit(trim(texts[i]))) =>
                SuggestedMessages = mapTrim(texts)

\* Three separated texts, one with hyphens inside and one with a blank
\* line inside, come back as three messages
C21_Witness ==
  /\ Applied("parseResponse")
  /\ arg = join(<<T_hyphens, T_padded, T_body>>, tripleDashPattern)
  /\ SuggestedMessages = <<T_hyphens, trim(T_padded), T_body>>

(***************************************************************************)
(* Properties of generateFallbackMessage                                   *)
(***************************************************************************)

\* What generateFallbackMessage returned for the diff of arg
Fallback == ret[CHOOSE i \in 1..Len(ret) : ret[i].fn = "generateFallbackMessage"].value

\* The lower-cased staged text, a line break, the lower-cased unstaged text
Combined == toLowerCase(DiffOf(arg).staged \o NL \o DiffOf(arg).unstaged)

HasAny(words) == \E w \in words : includes(Combined, w)

\* The type of the first group of words, in the order fix, feat, docs,
\* refactor, of which Combined holds a word
ExpectedType ==
  IF HasAny({W_fix, W_bug, W_error}) THEN W_fix
  ELSE IF HasAny({W_feat, W_add, W_new}) THEN W_feat
  ELSE IF HasAny({W_doc, W_readme}) THEN W_docs
  ELSE IF HasAny({W_refactor}) THEN W_refactor
  ELSE W_chore

\* What the returned message holds before its first colon
FallbackTypeOf(message) ==
  SubSeq(message, 1, MinOf({i \in 1..Len(message) : message[i] = ":"}) - 1)

\* C22: the type of the fallback message is that of the first group, in the
\* order fix (fix, bug, error), feat (feat, add, new), docs (doc, readme),
\* refactor (refactor), of which the lower-cased staged and unstaged text
\* holds a word, and chore when it holds none; a word of a group of higher
\* priority decides whatever else the text holds.
C22_TypeByFirstGroup ==
  Applied("generateFallbackMessage") =>
    /\ FallbackTypeOf(Fallback) = ExpectedType
    /\ toLowerCase(arg.word) \in {W_fix, W_bug, W_error} =>
         FallbackTypeOf(Fallback) = W_fix

\* A text with a word of docs and a word of feat gets feat
C22_Witness ==
  /\ Applied("generateFallbackMessage")
  /\ arg.marker = NoMarker
  /\ arg.word = <<"R", "E", "A", "D", "M", "E">>
  /\ arg.unstaged = W_new
  /\ FallbackTypeOf(Fallback) = W_feat

\* The lines of the combined text are the context lines, the marker line
\* if there is one, the word, and the unstaged text.
StagedMarkerSeen == arg.marker # NoMarker /\ arg.lines + 1 <= FallbackLines

UnstagedMarkerSeen ==
  /\ arg.unstaged = U_old
  /\ arg.lines + (IF arg.marker = NoMarker THEN 0 ELSE 1) + 2 <= FallbackLines

\* What follows the last slash of a marker line, the marker and the white
\* space after it left out; the marker stays when no white space follows it
\* and the line holds no slash.
FinalSegment(k) ==
  toLowerCase(IF k.gap = <<>> /\ k.dir = <<>> THEN k.sign \o k.file ELSE k.file)

\* The marker line the message is made from: the first of the two
FirstMarker ==
  IF StagedMarkerSeen THEN arg.marker
  ELSE [sign |-> DASHES, gap |-> <<" ">>, dir |-> <<"a", "/">>, file |-> <<"o", "l", "d", ".", "t", "s">>]

UpdateOf(name) == FallbackTypeOf(Fallback) \o W_update \o name

\* C23 as the specification states it: the file name of the message is
\* always the final path segment of the first marker line.
C23_AlwaysFinalSegment ==
  (Applied("generateFallbackMessage") /\ (StagedMarkerSeen \/ UnstagedMarkerSeen)) =>
    Fallback = UpdateOf(FinalSegment(FirstMarker))

\* C23, amended: the message is the type, ': update ' and the final path
\* segment of the first line, among the first five of the lower-cased
\* combined text, that begins with three plus or three minus signs, or
\* 'files' when that segment is empty; it ends in 'code' when none of the
\* five lines is a marker line.
C23_FinalSegmentOrFiles ==
  Applied("generateFallbackMessage") =>
    IF StagedMarkerSeen \/ UnstagedMarkerSeen
    THEN Fallback = UpdateOf(IF FinalSegment(FirstMarker) = <<>> THEN W_files
                             ELSE FinalSegment(FirstMarker))
    ELSE Fallback = UpdateOf(W_code)

\* The staged line '+++ b/src/fix_login.ts' and the word 'bug' give
\* 'fix: update fix_login.ts'
C23_Witness ==
  /\ Applied("generateFallbackMessage")
  /\ DiffOf(arg).staged = <<"+", "+", "+", " ", "b", "/", "s", "r", "c", "/", "f", "i", "x", "_", "l", "o", "g", "i", "n", ".", "t", "s">> \o NL \o W_bug
  /\ Fallback = <<"f", "i", "x", ":", " ", "u", "p", "d", "a", "t", "e", " ", "f", "i", "x", "_", "l", "o", "g", "i", "n", ".", "t", "s">>

(***************************************************************************)
(* Further properties of generateCommitMessages                            *)
(***************************************************************************)

\* The valid suggestions of each response the generator may give
EvaluatedSets == [text \in Responses |-> Evaluated(text)]

\* The step ends an attempt, whose outcome is the last of trace'
EndsAttempt == Len(trace') = Len(trace) + 1

\* C24: bestSuggestions is empty at first; a step changes it only to the
\* valid suggestions of the response just received, and only when these
\* are more than the stored ones (so never to an empty list, never to a
\* list of equal length, never to a shorter one); an attempt that ends in a
\* timeout, an error or a blank response leaves it as it is.
C24_BestOnlyGrows ==
  /\ bestSuggestions = <<>>
  /\ [][/\ Len(bestSuggestions') >= Len(bestSuggestions)
        /\ bestSuggestions' # bestSuggestions =>
             /\ EndsAttempt
             /\ trace'[Len(trace')].kind = "response"
             /\ bestSuggestions' = EvaluatedSets[trace'[Len(trace')].text]
             /\ Len(bestSuggestions') > Len(bestSuggestions)
        /\ (EndsAttempt
            /\ (trace'[Len(trace')].kind \in {"timeout", "error"}
                \/ trim(trace'[Len(trace')].text) = <<>>)) =>
             bestSuggestions' = bestSuggestions]_vars

\* The second attempt gave one valid suggestion as the first had: the
\* first one is still the stored one
C24_Witness ==
  /\ Len(trace) = 2
  /\ trace[1] = Outcome("response", R_one)
  /\ trace[2] = Outcome("response", R_other)
  /\ pc = "awaiting"
  /\ bestSuggestions = EvaluatedSets[R_one]
  /\ bestSuggestions # EvaluatedSets[R_other]

\* The step settles a call, or fires a timer, other than the one awaited
SettlesAbandonedCall ==
  \E k \in pendingCalls \ pendingCalls' : pc # "awaiting" \/ k # attempts

FiresStaleTimer ==
  \E k \in pendingTimers \ pendingTimers' : pc # "awaiting" \/ k # attempts

\* C25: when the timer of the attempt under way fires before its call has
\* settled, the attempt ends as a timeout (retried on attempts 1 and 2,
\* raised on attempt 3) and its call stays pending; when such a call
\* settles later, or a timer fires whose race is over, nothing of the run
\* changes: not bestSuggestions, attempts, result, error, nor its position.
C25_AbandonedCallIsIgnored ==
  [][/\ (EndsAttempt /\ trace'[Len(trace')].kind = "timeout") =>
          /\ attempts \in pendingCalls /\ attempts \in pendingCalls'
          /\ bestSuggestions' = bestSuggestions
          /\ IF attempts < maxAttempts
             THEN pc' = "awaiting" /\ attempts' = attempts + 1
             ELSE pc' = "thrown" /\ error' = "timeout"
     /\ (SettlesAbandonedCall \/ FiresStaleTimer) =>
          UNCHANGED <<pc, attempts, bestSuggestions, result, error, exit,
                      calls, trace>>]_vars

\* The first attempt timed out with a stored list empty, its call settled
\* during the second attempt, which then got a response of its own
C25_Witness ==
  /\ Len(trace) = 2
  /\ trace[1].kind = "timeout"
  /\ trace[2] = Outcome("response", R_one)
  /\ pendingCalls = {3}
  /\ 2 \in pendingTimers
  /\ bestSuggestions = EvaluatedSets[R_one]

(***************************************************************************)
(* Further properties of parseResponse                                     *)
(***************************************************************************)

BlankLine == <<"\n", "\n">>

\* The segments of the responses that begin with a type prefix
TypePrefixed == {R_one, R_other}

\* Of two segments, those that begin with a type prefix, in order
KeptOf(first, second) == SelectSeq(<<first, second>>, LAMBDA t : t \in TypePrefixed)

\* C26: for a response without separator or numbering whose segments are
\* set apart by blank lines, strategy 4 keeps exactly the segments whose
\* trimmed text begins with a type prefix (when there is one): a subject
\* followed by a blank line and a paragraph that does not begin with a type
\* prefix comes back as the subject alone, a single-line suggestion.
C26_BlankLineKeepsTypePrefixed ==
  Applied("parseResponse") =>
    \A first, second \in PartSegments, tail \in PartTails :
      (arg = first \o BlankLine \o second \o tail /\ KeptOf(first, second) # <<>>) =>
        Suggestions =
          [i \in 1..Len(KeptOf(first, second)) |->
             [message |-> KeptOf(first, second)[i], type |-> SingleLine]]

\* A subject, a blank line and a bulleted paragraph: the subject alone
C26_Witness ==
  /\ Applied("parseResponse")
  /\ arg = R_one \o BlankLine \o T_bulleted
  /\ Suggestions = <<[message |-> R_one, type |-> SingleLine]>>

(***************************************************************************)
(* Further properties of generateCommitMessages: what is stored            *)
(***************************************************************************)

\* Attempt k got a response with exactly one valid suggestion
GaveOne(k) == Responded(k) /\ Len(EvaluatedSets[trace[k].text]) = 1

\* The run left the loop because the three attempts were used
LoopExhausted ==
  \/ pc = "returned" /\ exit \in {"best", "fallback"}
  \/ pc = "thrown" /\ error \in {"timeout", "noValidSuggestions"}

\* C27: while the loop goes on and when it ends by exhaustion the stored
\* list holds at most one suggestion; when it holds one, it is the valid
\* suggestion of the earliest attempt that gave exactly one, and a list
\* returned after exhaustion that is not the fallback has exactly that
\* one entry.
C27_StoredIsEarliestSingle ==
  /\ (pc = "awaiting" \/ LoopExhausted) =>
       /\ Len(bestSuggestions) <= 1
       /\ Len(bestSuggestions) = 1 =>
            \E k \in 1..Len(trace) :
              /\ GaveOne(k)
              /\ bestSuggestions = EvaluatedSets[trace[k].text]
              /\ \A j \in 1..(k - 1) : ~GaveOne(j)
       /\ bestSuggestions = <<>> => \A k \in 1..Len(trace) : ~GaveOne(k)
  /\ (pc = "returned" /\ exit = "best") =>
       Len(result) = 1 /\ result = bestSuggestions

\* No candidate, then one valid suggestion, then another one: the one of
\* the second attempt is returned
C27_Witness ==
  /\ Len(trace) = 3
  /\ trace[1] = Outcome("response", R_noise)
  /\ trace[2] = Outcome("response", R_other)
  /\ trace[3] = Outcome("response", R_one)
  /\ pc = "returned" /\ exit = "best"
  /\ result = EvaluatedSets[R_other]

\* C28: a list returned by generateCommitMessages, by whichever return
\* statement and after whatever the generator did, holds at least one and
\* at most five suggestions.
C28_ReturnedOneToFive ==
  pc = "returned" =>
    /\ exit \in {"accepted", "enough", "best", "fallback"}
    /\ Len(result) >= 1
    /\ Len(result) <= MaxSuggestions

\* Six valid multi-line messages on the third attempt, short of the
\* requirements: five of them are returned
C28_Witness ==
  /\ Len(trace) = 3
  /\ trace[3] = Outcome("response", R_sixMulti)
  /\ Len(EvaluatedSets[R_sixMulti]) = MaxSuggestions + 1
  /\ pc = "returned" /\ exit = "enough"
  /\ Len(result) = MaxSuggestions

(***************************************************************************)
(* Further properties of generateCommitMessages: errors                    *)
(***************************************************************************)

HoldsAny(message, words) == \E w \in words : includes(toLowerCase(message), w)

\* The kind of an error by the first group of words its lower-cased
\* message holds
ClassOf ==
  [message \in ErrorMessages \cup {RequestTimeout} |->
     IF HoldsAny(message, {<<"r", "a", "t", "e", " ", "l", "i", "m", "i", "t">>, <<"q", "u", "o", "t", "a">>})
     THEN "rateLimitExceeded"
     ELSE IF HoldsAny(message, {<<"a", "p", "i", " ", "k", "e", "y">>, <<"a", "u", "t", "h">>, <<"p", "e", "r", "m", "i", "s", "s", "i", "o", "n">>})
     THEN "authenticationFailed"
     ELSE IF HoldsAny(message, {<<"t", "i", "m", "e", "o", "u", "t">>})
     THEN "timeout"
     ELSE "other"]

\* C29: an error raised during an attempt is handled by the first kind, in
\* the order rate limit, authentication, timeout, other, whose words its
\* lower-cased message holds: the first two are raised at once, whatever
\* else the message says; a timeout is retried before the third attempt
\* and raised on it; another error is retried or ends the loop. The timer's
\* own 'Request timeout' is a timeout.
C29_FirstMatchingKind ==
  [][(EndsAttempt /\ trace'[Len(trace')].kind \in {"error", "timeout"}) =>
       /\ trace'[Len(trace')].kind = "timeout" =>
            /\ trace'[Len(trace')].text = RequestTimeout
            /\ ClassOf[RequestTimeout] = "timeout"
       /\ ClassOf[trace'[Len(trace')].text] \in {"rateLimitExceeded", "authenticationFailed"} =>
            /\ pc' = "thrown"
            /\ error' = ClassOf[trace'[Len(trace')].text]
            /\ calls' = calls
       /\ ClassOf[trace'[Len(trace')].text] = "timeout" =>
            IF attempts < maxAttempts
            THEN pc' = "awaiting" /\ calls' = calls + 1 /\ error' = "none"
            ELSE pc' = "thrown" /\ error' = "timeout"
       /\ ClassOf[trace'[Len(trace')].text] = "other" =>
            IF attempts < maxAttempts
            THEN pc' = "awaiting" /\ calls' = calls + 1 /\ error' = "none"
            ELSE pc' = "returned" /\ error' = "none"]_vars

\* An error that speaks of a timeout and of a quota on the first attempt:
\* the rate-limit error is raised after one call
C29_Witness ==
  /\ trace = <<Outcome("error", E_timeoutQuota)>>
  /\ HoldsAny(E_timeoutQuota, {W_timeout})
  /\ pc = "thrown" /\ error = "rateLimitExceeded"
  /\ calls = 1

(***************************************************************************)
(* Termination of generateCommitMessages                                   *)
(***************************************************************************)

Terminated == pc \in {"returned", "thrown"}

\* C30: when every race settles, a run that has started ends, after at
\* most three attempts, either returned (a list from the generator or the
\* fallback, and no error) or thrown (rate limit, authentication or
\* timeout, and no list), never both; once it has ended no step issues a
\* call or changes attempts, bestSuggestions, the result or the error.
C30_RunEndsOnce ==
  /\ [](/\ attempts <= maxAttempts /\ calls <= maxAttempts
        /\ pc = "returned" =>
             /\ exit \in {"accepted", "enough", "best", "fallback"}
             /\ result # <<>> /\ error = "none"
        /\ pc = "thrown" =>
             /\ error \in {"rateLimitExceeded", "authenticationFailed", "timeout"}
             /\ result = <<>> /\ exit = "none")
  /\ [][Terminated =>
          UNCHANGED <<pc, attempts, calls, bestSuggestions, result, error,
                      exit, trace>>]_vars
  /\ (pc = "awaiting" ~> Terminated)

\* A run that ended in the timeout of its third attempt, its three calls
\* and timers all settled since
C30_Witness ==
  /\ pc = "thrown" /\ error = "timeout"
  /\ attempts = maxAttempts
  /\ \A k \in 1..maxAttempts : trace[k].kind = "timeout"
  /\ pendingCalls = {} /\ pendingTimers = {}

====
